---- MODULE Spec2Model ----
(***************************************************************************)
(* Model of the Portefeuille class (src/portefeuille.py): the cash ledger  *)
(* `courant`, the trade ledger `courtage`, their JSON store, the price     *)
(* oracle Bourse.prix (src/bourse.py) and the wall clock.                  *)
(*                                                                         *)
(* A date is the triple <<year, month, day>> of a datetime.date, compared  *)
(* lexicographically.  A text (a JSON date string, a JSON number) is the   *)
(* sequence of its characters.                                             *)
(***************************************************************************)
EXTENDS Integers, Sequences, FiniteSets, TLC

VARIABLES
    aujourdhui,   \* dt.date.today()
    plateforme,   \* the C library behind date.strftime: "glibc" or "autre"
    session,      \* "ouverte": a Portefeuille exists; "terminee": __init__ raised
    autre,        \* the Portefeuille of a second process on the same file, if any
    courant,      \* self.courant : sequence of <<date, montant>>
    courtage,     \* self.courtage: sequence of <<date, symbole, quantite, prix>>
    fichier,      \* the file "<nom>.json": whether it exists, and its two lists
    dernier,      \* the last call: its name, arguments and outcome
    avant,        \* courant, courtage and fichier as they were when that call began
    positifs,     \* every accepted call so far had quantite > 0, montant >= 0
    depots        \* the deposits accepted so far: sequence of <<date, montant>>

vars == <<aujourdhui, plateforme, session, autre, courant, courtage, fichier,
          dernier, avant, positifs, depots>>

\* ------------------------------------------------------------------ bounds

\* the clock runs over the days 1..MaxJour of January 2024
MaxJour == 2
\* the runs of Spec stop appending at MaxEcritures entries in the cash ledger
MaxEcritures == 3
\* the runs of SpecLong, which trade one share of one symbol, stop at MaxLong
MaxLong == 4
\* the runs of SpecDeux, with two processes, stop at MaxDeux
MaxDeux == 3
\* the runs of SpecZero, with trades of no share, stop at MaxZero
MaxZero == 3
\* SpecProjection projects over 0..MaxAnnee whole years
MaxAnnee == 2
\* the runs of SpecProjetee stop at MaxProjetee
MaxProjetee == 3

\* ------------------------------------------------------------------ inputs

Jour(j) == <<2024, 1, j>>
\* a date before the year 1000, as `-d 0999-12-31` gives on the command line
DateAncienne == <<999, 12, 31>>
\* the days of the clock: a day after today is a date in the future
Jours == {Jour(j) : j \in 1..MaxJour}
\* the date arguments
Dates == {DateAncienne} \cup Jours
Symboles == {"A", "B"}
Quantites == {1, 2}
\* the quantities of SpecZero: `-q 0` is accepted on the command line
QuantitesZero == {0, 1}
\* the one closing price of SpecDeux and SpecZero
CotesZero == {1}
\* the arguments of projection and valeur_projetée_symbole in SpecProjection:
\* present values, rates in percent, days beyond the whole years, durations
\* in days
Valeurs == {0, 1, 1000}
Taux == {-100, 0, 5, 100}
Restes == {0, 73, 365}
Durees == {-365, -1, 0, 364, 365, 730}
Rendements == {0, 5}
\* the argument rendement of valeur_projetée: a float, an int, or a dict
\* from symbols to rates; taux is the scalar, table the dict
SansTable == [s \in {} |-> 0]
RendementsPortefeuille ==
    {[type |-> "float", taux |-> 0, table |-> SansTable],
     [type |-> "float", taux |-> 5, table |-> SansTable],
     [type |-> "int", taux |-> 5, table |-> SansTable],
     [type |-> "dict", taux |-> 0, table |-> SansTable],
     [type |-> "dict", taux |-> 0, table |-> [s \in {"A"} |-> 5]]}
Montants == {2}
\* the closing prices Bourse.prix returns.  (A failed request ends the process
\* in données_bourse before any ledger is touched: NouvelleSession is what follows.)
Cotes == {1, 2}
\* no file "<nom>.json"
Absent == [existe |-> FALSE, courant |-> <<>>, courtage |-> <<>>]
Nul == "nul"

\* ------------------------------------------------------------------- dates

\* datetime.date comparison
DateLE(a, b) ==
    \/ a[1] < b[1]
    \/ a[1] = b[1] /\ a[2] < b[2]
    \/ a[1] = b[1] /\ a[2] = b[2] /\ a[3] <= b[3]

\* a > b, as in `date > dt.date.today()`
DateGT(a, b) == ~DateLE(a, b)

\* ------------------------------------------------------------------- texts

Chiffres == <<"0", "1", "2", "3", "4", "5", "6", "7", "8", "9">>

EstChiffre(c) == \E i \in 1..10 : Chiffres[i] = c

ValeurChiffre(c) == (CHOOSE i \in 1..10 : Chiffres[i] = c) - 1

\* the decimal digits of n >= 0, without padding
RECURSIVE Decimal(_)
Decimal(n) ==
    IF n < 10 THEN <<Chiffres[n + 1]>>
    ELSE Decimal(n \div 10) \o <<Chiffres[(n % 10) + 1]>>

\* the number a sequence of digits denotes
RECURSIVE ValeurDecimale(_)
ValeurDecimale(s) ==
    IF s = <<>> THEN 0
    ELSE 10 * ValeurDecimale(SubSeq(s, 1, Len(s) - 1)) + ValeurChiffre(s[Len(s)])

\* %m and %d: two digits, zero-padded
DeuxChiffres(n) == <<Chiffres[(n \div 10) + 1], Chiffres[(n % 10) + 1]>>

\* %Y: glibc prints the year without padding, the other C libraries pad it
\* with zeros to four digits
Annee(y, pf) ==
    LET d == Decimal(y)
    IN  IF pf = "glibc" THEN d
        ELSE [i \in 1..(4 - Len(d)) |-> "0"] \o d

\* d.strftime("%Y-%m-%d")
strftime(d, pf) ==
    Annee(d[1], pf) \o <<"-">> \o DeuxChiffres(d[2]) \o <<"-">> \o DeuxChiffres(d[3])

\* datetime.strptime(s, "%Y-%m-%d").date(): %Y matches exactly four digits.
\* (On the texts strftime writes, months and days have two digits, so the
\* format matches exactly the texts dddd-dd-dd.)  ValueError otherwise.
strptime(s) ==
    IF /\ Len(s) = 10
       /\ s[5] = "-" /\ s[8] = "-"
       /\ \A i \in {1, 2, 3, 4, 6, 7, 9, 10} : EstChiffre(s[i])
    THEN [res |-> "ok",
          val |-> <<ValeurDecimale(SubSeq(s, 1, 4)), ValeurDecimale(SubSeq(s, 6, 7)),
                    ValeurDecimale(SubSeq(s, 9, 10))>>]
    ELSE [res |-> "ValueError", val |-> <<>>]

\* json.dumps of a number
json_nombre(n) == IF n < 0 THEN <<"-">> \o Decimal(-n) ELSE Decimal(n)

\* json.load of a number
json_valeur(s) ==
    IF s[1] = "-" THEN -ValeurDecimale(Tail(s)) ELSE ValeurDecimale(s)

\* ------------------------------------------------------------- persistence

\* écrire_json as it would be were the trade ledger left out of the dump
ecrire_json_sans_courtage(c, t, pf) ==
    [existe   |-> TRUE,
     courant  |-> [i \in 1..Len(c) |-> <<strftime(c[i][1], pf), json_nombre(c[i][2])>>],
     courtage |-> <<>>]

\* what écrire_json writes: both ledgers, whole, dates as strftime renders them
ecrire_json(c, t, pf) ==
    [existe   |-> TRUE,
     courant  |-> [i \in 1..Len(c) |-> <<strftime(c[i][1], pf), json_nombre(c[i][2])>>],
     courtage |-> [i \in 1..Len(t) |->
                     <<strftime(t[i][1], pf), t[i][2], json_nombre(t[i][3]),
                       json_nombre(t[i][4])>>]]

\* what lire_json leaves in a Portefeuille whose ledgers are c and t: nothing
\* changes without a file; a date that does not parse raises ValueError
lire_json(f, c, t) ==
    IF ~f.existe THEN [res |-> "ok", courant |-> c, courtage |-> t]
    ELSE IF \/ \E i \in 1..Len(f.courant)  : strptime(f.courant[i][1]).res = "ValueError"
            \/ \E i \in 1..Len(f.courtage) : strptime(f.courtage[i][1]).res = "ValueError"
         THEN [res |-> "ValueError", courant |-> c, courtage |-> t]
         ELSE [res |-> "ok",
               courant  |-> [i \in 1..Len(f.courant) |->
                               <<strptime(f.courant[i][1]).val, json_valeur(f.courant[i][2])>>],
               courtage |-> [i \in 1..Len(f.courtage) |->
                               <<strptime(f.courtage[i][1]).val, f.courtage[i][2],
                                 json_valeur(f.courtage[i][3]),
                                 json_valeur(f.courtage[i][4])>>]]

\* ----------------------------------------------------------------- queries

\* the loop of solde as it would be with t_date >= date in place of <=
RECURSIVE solde_dates_suivantes(_, _)
solde_dates_suivantes(c, date) ==
    IF c = <<>> THEN 0
    ELSE solde_dates_suivantes(SubSeq(c, 1, Len(c) - 1), date)
         + (IF DateLE(date, c[Len(c)][1]) THEN c[Len(c)][2] ELSE 0)

\* the loop of solde: the amounts dated <= date, added up
RECURSIVE solde(_, _)
solde(c, date) ==
    IF c = <<>> THEN 0
    ELSE solde(SubSeq(c, 1, Len(c) - 1), date)
         + (IF DateLE(c[Len(c)][1], date) THEN c[Len(c)][2] ELSE 0)

\* nombre_actions: the signed quantities of the symbol dated <= date, added up
RECURSIVE nombre_actions(_, _, _)
nombre_actions(t, symbole, date) ==
    IF t = <<>> THEN 0
    ELSE nombre_actions(SubSeq(t, 1, Len(t) - 1), symbole, date)
         + (IF DateLE(t[Len(t)][1], date) /\ t[Len(t)][2] = symbole
            THEN t[Len(t)][3] ELSE 0)

\* the loop of valeur_des_titres as it would be without its test of the symbol
RECURSIVE valeur_des_titres_tous_symboles(_, _, _)
valeur_des_titres_tous_symboles(t, symboles, date) ==
    IF t = <<>> THEN 0
    ELSE valeur_des_titres_tous_symboles(SubSeq(t, 1, Len(t) - 1), symboles, date)
         + (IF DateLE(t[Len(t)][1], date) THEN t[Len(t)][3] * t[Len(t)][4] ELSE 0)

\* the loop of valeur_des_titres as it would be were the quantity of a sale
\* counted unsigned
RECURSIVE valeur_des_titres_quantite_absolue(_, _, _)
valeur_des_titres_quantite_absolue(t, symboles, date) ==
    IF t = <<>> THEN 0
    ELSE valeur_des_titres_quantite_absolue(SubSeq(t, 1, Len(t) - 1), symboles, date)
         + (IF DateLE(t[Len(t)][1], date) /\ t[Len(t)][2] \in symboles
            THEN (IF t[Len(t)][3] < 0 THEN -t[Len(t)][3] ELSE t[Len(t)][3]) * t[Len(t)][4]
            ELSE 0)

\* the loop of valeur_des_titres: quantity x stored unit price
RECURSIVE valeur_des_titres(_, _, _)
valeur_des_titres(t, symboles, date) ==
    IF t = <<>> THEN 0
    ELSE valeur_des_titres(SubSeq(t, 1, Len(t) - 1), symboles, date)
         + (IF DateLE(t[Len(t)][1], date) /\ t[Len(t)][2] \in symboles
            THEN t[Len(t)][3] * t[Len(t)][4] ELSE 0)

\* the loop of titres as it would be were a zero total stored, not popped
titres_pas_garde_zero(d, e, date) ==
    IF ~DateLE(e[1], date) THEN [res |-> "ok", val |-> d]
    ELSE [res |-> "ok",
          val |-> [s \in (DOMAIN d) \cup {e[2]} |->
                     IF s = e[2]
                     THEN e[3] + (IF e[2] \in DOMAIN d THEN d[e[2]] ELSE 0)
                     ELSE d[s]]]

\* one turn of the loop of titres on entry e, the dict being d
\* (t_symbole != 0 holds of every symbol, a string):
\* dict.pop of a key the dict does not hold raises KeyError
titres_pas(d, e, date) ==
    LET nouvelle_quantite == e[3] + (IF e[2] \in DOMAIN d THEN d[e[2]] ELSE 0)
    IN  IF ~DateLE(e[1], date) THEN [res |-> "ok", val |-> d]
        ELSE IF nouvelle_quantite = 0
             THEN IF e[2] \in DOMAIN d
                  THEN [res |-> "ok", val |-> [s \in (DOMAIN d) \ {e[2]} |-> d[s]]]
                  ELSE [res |-> "KeyError", val |-> d]
             ELSE [res |-> "ok",
                   val |-> [s \in (DOMAIN d) \cup {e[2]} |->
                              IF s = e[2] THEN nouvelle_quantite ELSE d[s]]]

\* the loop of titres over the ledger, in ledger order
RECURSIVE titres(_, _)
titres(t, date) ==
    IF t = <<>> THEN [res |-> "ok", val |-> [s \in {} |-> 0]]
    ELSE LET debut == titres(SubSeq(t, 1, Len(t) - 1), date)
         IN  IF debut.res # "ok" THEN debut
             ELSE titres_pas(debut.val, t[Len(t)], date)

\* ------------------------------------------------------------------ calls

\* the record of a call; a field a call does not use holds Nul; etapes is
\* the sequence of the steps the call went through: "date" its test of the
\* date, "prix" its call of self.bourse.prix, "solde" and "nombre_actions"
\* its calls of these methods, "append_..." and "lire_..." its appends to
\* and its loops over a ledger, "ecrire_json" its write of the file
Appel == [op |-> Nul, date |-> Nul, symbole |-> Nul, symboles |-> Nul,
          quantite |-> Nul, montant |-> Nul, prix |-> Nul, res |-> Nul, val |-> Nul,
          etapes |-> <<>>, args |-> <<>>]

Memoire == [courant |-> courant, courtage |-> courtage, fichier |-> fichier]

Init ==
    /\ aujourdhui = Jour(1)
    /\ plateforme \in {"glibc", "autre"}
    /\ session = "ouverte"
    /\ autre = [session |-> "aucune", courant |-> <<>>, courtage |-> <<>>]
    /\ courant = <<>>
    /\ courtage = <<>>
    /\ fichier = Absent
    /\ dernier = [Appel EXCEPT !.op = "__init__", !.res = "ok"]
    /\ avant = [courant |-> <<>>, courtage |-> <<>>, fichier |-> Absent]
    /\ positifs = TRUE
    /\ depots = <<>>

\* déposer as it would be with insert(0, ...) in place of append
Deposer_en_tete(montant, date) ==
    /\ session = "ouverte"
    /\ avant' = Memoire
    /\ IF DateGT(date, aujourdhui)
       THEN /\ dernier' = [Appel EXCEPT !.op = "deposer", !.date = date,
                                        !.montant = montant, !.res = "ErreurDate"]
            /\ UNCHANGED <<courant, courtage, fichier, positifs, depots>>
       ELSE /\ courant' = <<<<date, montant>>>> \o courant
            /\ fichier' = ecrire_json(courant', courtage, plateforme)
            /\ dernier' = [Appel EXCEPT !.op = "deposer", !.date = date,
                                        !.montant = montant, !.res = "ok"]
            /\ positifs' = (positifs /\ montant >= 0)
            /\ depots' = Append(depots, <<date, montant>>)
            /\ UNCHANGED courtage
    /\ UNCHANGED <<aujourdhui, plateforme, autre, session>>

\* déposer as it would be were the file read again before the append
Deposer_relit(montant, date) ==
    LET lu == lire_json(fichier, courant, courtage)
    IN  /\ session = "ouverte"
        /\ avant' = Memoire
        /\ IF DateGT(date, aujourdhui)
           THEN /\ dernier' = [Appel EXCEPT !.op = "deposer", !.date = date,
                                            !.montant = montant, !.res = "ErreurDate"]
                /\ UNCHANGED <<courant, courtage, fichier, positifs, depots>>
           ELSE /\ courant' = Append(lu.courant, <<date, montant>>)
                /\ courtage' = lu.courtage
                /\ fichier' = ecrire_json(courant', courtage', plateforme)
                /\ dernier' = [Appel EXCEPT !.op = "deposer", !.date = date,
                                            !.montant = montant, !.res = "ok"]
                /\ positifs' = (positifs /\ montant >= 0)
                /\ depots' = Append(depots, <<date, montant>>)
        /\ UNCHANGED <<aujourdhui, plateforme, autre, session>>

\* déposer as it would be without its test of the date
Deposer_sans_controle(montant, date) ==
    /\ session = "ouverte"
    /\ avant' = Memoire
    /\ courant' = Append(courant, <<date, montant>>)
    /\ fichier' = ecrire_json(courant', courtage, plateforme)
    /\ dernier' = [Appel EXCEPT !.op = "deposer", !.date = date,
                                !.montant = montant, !.res = "ok"]
    /\ positifs' = (positifs /\ montant >= 0)
    /\ depots' = Append(depots, <<date, montant>>)
    /\ UNCHANGED <<aujourdhui, plateforme, autre, session, courtage>>

\* Portefeuille.déposer(montant, date)
Deposer(montant, date) ==
    /\ session = "ouverte"
    /\ avant' = Memoire
    /\ IF DateGT(date, aujourdhui)
       THEN /\ dernier' = [Appel EXCEPT !.op = "deposer", !.date = date,
                                        !.montant = montant, !.res = "ErreurDate",
                                        !.etapes = <<"date">>]
            /\ UNCHANGED <<courant, courtage, fichier, positifs, depots>>
       ELSE /\ courant' = Append(courant, <<date, montant>>)
            /\ fichier' = ecrire_json(courant', courtage, plateforme)
            /\ dernier' = [Appel EXCEPT !.op = "deposer", !.date = date,
                                        !.montant = montant, !.res = "ok",
                                        !.etapes = <<"date", "append_courant",
                                                     "ecrire_json">>]
            /\ positifs' = (positifs /\ montant >= 0)
            /\ depots' = Append(depots, <<date, montant>>)
            /\ UNCHANGED courtage
    /\ UNCHANGED <<aujourdhui, plateforme, autre, session>>

\* the liquidity test as it would be with <= in place of <
liquidite_insuffisante_ou_egale(c, date, valeur_totale) ==
    solde(c, date) <= valeur_totale

\* the liquidity test of acheter: self.solde(date) < valeur_totale
liquidite_insuffisante(c, date, valeur_totale) == solde(c, date) < valeur_totale

\* the quantity test as it would be were the holdings counted at every date
quantite_insuffisante_sans_date(t, symbole, date, quantite) ==
    nombre_actions(t, symbole, Jour(MaxJour)) < quantite

\* the quantity test of vendre: self.nombre_actions(symbole, date) < quantité
quantite_insuffisante(t, symbole, date, quantite) ==
    nombre_actions(t, symbole, date) < quantite

\* acheter as it would be were the debit appended before the liquidity test
Acheter_debit_avant_controle(symbole, quantite, date, prix) ==
    LET appel == [Appel EXCEPT !.op = "acheter", !.date = date,
                               !.symbole = symbole, !.quantite = quantite]
        valeur_totale == prix * quantite
    IN
    /\ session = "ouverte"
    /\ avant' = Memoire
    /\ IF DateGT(date, aujourdhui)
       THEN /\ dernier' = [appel EXCEPT !.res = "ErreurDate"]
            /\ UNCHANGED <<courant, courtage, fichier, positifs, depots>>
       ELSE IF solde(courant, date) < valeur_totale
       THEN /\ courant' = Append(courant, <<date, -valeur_totale>>)
            /\ dernier' = [appel EXCEPT !.prix = prix, !.res = "LiquiditeInsuffisante"]
            /\ UNCHANGED <<courtage, fichier, positifs, depots>>
       ELSE /\ courant' = Append(courant, <<date, -valeur_totale>>)
            /\ courtage' = Append(courtage, <<date, symbole, quantite, prix>>)
            /\ fichier' = ecrire_json(courant', courtage', plateforme)
            /\ dernier' = [appel EXCEPT !.prix = prix, !.res = "ok"]
            /\ positifs' = (positifs /\ quantite > 0)
            /\ UNCHANGED depots
    /\ UNCHANGED <<aujourdhui, plateforme, autre, session>>

\* Portefeuille.acheter(symbole, quantité, date); prix is what
\* self.bourse.prix(symbole, date) returns
Acheter(symbole, quantite, date, prix) ==
    LET appel == [Appel EXCEPT !.op = "acheter", !.date = date,
                               !.symbole = symbole, !.quantite = quantite]
        valeur_totale == prix * quantite
    IN
    /\ session = "ouverte"
    /\ avant' = Memoire
    /\ IF DateGT(date, aujourdhui)
       THEN /\ dernier' = [appel EXCEPT !.res = "ErreurDate", !.etapes = <<"date">>]
            /\ UNCHANGED <<courant, courtage, fichier, positifs, depots>>
       ELSE IF liquidite_insuffisante(courant, date, valeur_totale)
       THEN /\ dernier' = [appel EXCEPT !.prix = prix, !.res = "LiquiditeInsuffisante",
                                      !.etapes = <<"date", "prix", "solde">>]
            /\ UNCHANGED <<courant, courtage, fichier, positifs, depots>>
       ELSE /\ courant' = Append(courant, <<date, -valeur_totale>>)
            /\ courtage' = Append(courtage, <<date, symbole, quantite, prix>>)
            /\ fichier' = ecrire_json(courant', courtage', plateforme)
            /\ dernier' = [appel EXCEPT !.prix = prix, !.res = "ok",
                                      !.etapes = <<"date", "prix", "solde",
                                                   "append_courant", "append_courtage",
                                                   "ecrire_json">>]
            /\ positifs' = (positifs /\ quantite > 0)
            /\ UNCHANGED depots
    /\ UNCHANGED <<aujourdhui, plateforme, autre, session>>

\* vendre as it would be were the quantity stored unsigned in the trade entry
Vendre_quantite_non_signee(symbole, quantite, date, prix) ==
    LET appel == [Appel EXCEPT !.op = "vendre", !.date = date,
                               !.symbole = symbole, !.quantite = quantite]
        valeur_totale == prix * quantite
    IN
    /\ session = "ouverte"
    /\ avant' = Memoire
    /\ IF DateGT(date, aujourdhui)
       THEN /\ dernier' = [appel EXCEPT !.res = "ErreurDate", !.etapes = <<"date">>]
            /\ UNCHANGED <<courant, courtage, fichier, positifs, depots>>
       ELSE IF quantite_insuffisante(courtage, symbole, date, quantite)
       THEN /\ dernier' = [appel EXCEPT !.res = "ErreurQuantite",
                                      !.etapes = <<"date", "nombre_actions">>]
            /\ UNCHANGED <<courant, courtage, fichier, positifs, depots>>
       ELSE /\ courtage' = Append(courtage, <<date, symbole, quantite, prix>>)
            /\ courant' = Append(courant, <<date, valeur_totale>>)
            /\ fichier' = ecrire_json(courant', courtage', plateforme)
            /\ dernier' = [appel EXCEPT !.prix = prix, !.res = "ok",
                                      !.etapes = <<"date", "nombre_actions", "prix",
                                                   "append_courtage", "append_courant",
                                                   "ecrire_json">>]
            /\ positifs' = (positifs /\ quantite > 0)
            /\ UNCHANGED depots
    /\ UNCHANGED <<aujourdhui, plateforme, autre, session>>

\* vendre as it would be were the price asked before the test of the quantity
Vendre_prix_d_abord(symbole, quantite, date, prix) ==
    LET appel == [Appel EXCEPT !.op = "vendre", !.date = date,
                               !.symbole = symbole, !.quantite = quantite]
        valeur_totale == prix * quantite
    IN
    /\ session = "ouverte"
    /\ avant' = Memoire
    /\ IF DateGT(date, aujourdhui)
       THEN /\ dernier' = [appel EXCEPT !.res = "ErreurDate", !.etapes = <<"date">>]
            /\ UNCHANGED <<courant, courtage, fichier, positifs, depots>>
       ELSE IF quantite_insuffisante(courtage, symbole, date, quantite)
       THEN /\ dernier' = [appel EXCEPT !.prix = prix, !.res = "ErreurQuantite",
                                      !.etapes = <<"date", "prix", "nombre_actions">>]
            /\ UNCHANGED <<courant, courtage, fichier, positifs, depots>>
       ELSE /\ courtage' = Append(courtage, <<date, symbole, -quantite, prix>>)
            /\ courant' = Append(courant, <<date, valeur_totale>>)
            /\ fichier' = ecrire_json(courant', courtage', plateforme)
            /\ dernier' = [appel EXCEPT !.prix = prix, !.res = "ok",
                                      !.etapes = <<"date", "prix", "nombre_actions",
                                                   "append_courtage", "append_courant",
                                                   "ecrire_json">>]
            /\ positifs' = (positifs /\ quantite > 0)
            /\ UNCHANGED depots
    /\ UNCHANGED <<aujourdhui, plateforme, autre, session>>

\* Portefeuille.vendre(symbole, quantité, date); prix is what
\* self.bourse.prix(symbole, date) returns
Vendre(symbole, quantite, date, prix) ==
    LET appel == [Appel EXCEPT !.op = "vendre", !.date = date,
                               !.symbole = symbole, !.quantite = quantite]
        valeur_totale == prix * quantite
    IN
    /\ session = "ouverte"
    /\ avant' = Memoire
    /\ IF DateGT(date, aujourdhui)
       THEN /\ dernier' = [appel EXCEPT !.res = "ErreurDate", !.etapes = <<"date">>]
            /\ UNCHANGED <<courant, courtage, fichier, positifs, depots>>
       ELSE IF quantite_insuffisante(courtage, symbole, date, quantite)
       THEN /\ dernier' = [appel EXCEPT !.res = "ErreurQuantite",
                                      !.etapes = <<"date", "nombre_actions">>]
            /\ UNCHANGED <<courant, courtage, fichier, positifs, depots>>
       ELSE /\ courtage' = Append(courtage, <<date, symbole, -quantite, prix>>)
            /\ courant' = Append(courant, <<date, valeur_totale>>)
            /\ fichier' = ecrire_json(courant', courtage', plateforme)
            /\ dernier' = [appel EXCEPT !.prix = prix, !.res = "ok",
                                      !.etapes = <<"date", "nombre_actions", "prix",
                                                   "append_courtage", "append_courant",
                                                   "ecrire_json">>]
            /\ positifs' = (positifs /\ quantite > 0)
            /\ UNCHANGED depots
    /\ UNCHANGED <<aujourdhui, plateforme, autre, session>>

\* solde as it would be without its test of the date
Solde_sans_controle(date) ==
    /\ session = "ouverte"
    /\ avant' = Memoire
    /\ dernier' = [Appel EXCEPT !.op = "solde", !.date = date, !.res = "ok",
                                !.val = solde(courant, date)]
    /\ UNCHANGED <<aujourdhui, plateforme, autre, session, courant, courtage, fichier, positifs, depots>>

\* Portefeuille.solde(date)
Solde(date) ==
    /\ session = "ouverte"
    /\ avant' = Memoire
    /\ dernier' = IF DateGT(date, aujourdhui)
                  THEN [Appel EXCEPT !.op = "solde", !.date = date, !.res = "ErreurDate"]
                  ELSE [Appel EXCEPT !.op = "solde", !.date = date, !.res = "ok",
                                     !.val = solde(courant, date)]
    /\ UNCHANGED <<aujourdhui, plateforme, autre, session, courant, courtage, fichier, positifs, depots>>

\* Portefeuille.titres(date)
Titres(date) ==
    /\ session = "ouverte"
    /\ avant' = Memoire
    /\ dernier' = IF DateGT(date, aujourdhui)
                  THEN [Appel EXCEPT !.op = "titres", !.date = date, !.res = "ErreurDate"]
                  ELSE [Appel EXCEPT !.op = "titres", !.date = date,
                                     !.res = titres(courtage, date).res,
                                     !.val = titres(courtage, date).val]
    /\ UNCHANGED <<aujourdhui, plateforme, autre, session, courant, courtage, fichier, positifs, depots>>

\* Portefeuille.valeur_des_titres(symboles, date)
ValeurDesTitres(symboles, date) ==
    /\ session = "ouverte"
    /\ avant' = Memoire
    /\ dernier' = IF DateGT(date, aujourdhui)
                  THEN [Appel EXCEPT !.op = "valeur_des_titres", !.date = date,
                                     !.symboles = symboles, !.res = "ErreurDate",
                                     !.etapes = <<"date">>]
                  ELSE [Appel EXCEPT !.op = "valeur_des_titres", !.date = date,
                                     !.symboles = symboles, !.res = "ok",
                                     !.val = valeur_des_titres(courtage, symboles, date),
                                     !.etapes = <<"date", "lire_courtage">>]
    /\ UNCHANGED <<aujourdhui, plateforme, autre, session, courant, courtage, fichier, positifs, depots>>

\* the loop of valeur_totale: the amounts of courant dated <= date, added up
RECURSIVE total(_, _)
total(c, date) ==
    IF c = <<>> THEN 0
    ELSE total(SubSeq(c, 1, Len(c) - 1), date)
         + (IF DateLE(c[Len(c)][1], date) THEN c[Len(c)][2] ELSE 0)

\* what valeur_totale would return were it self.solde(date) alone
valeur_totale_solde_seul(c, date) == solde(c, date)

\* what valeur_totale returns: total + self.solde(date)
valeur_totale(c, date) == total(c, date) + solde(c, date)

\* Portefeuille.valeur_totale(date)
ValeurTotale(date) ==
    /\ session = "ouverte"
    /\ avant' = Memoire
    /\ dernier' = IF DateGT(date, aujourdhui)
                  THEN [Appel EXCEPT !.op = "valeur_totale", !.date = date,
                                     !.res = "ErreurDate", !.etapes = <<"date">>]
                  ELSE [Appel EXCEPT !.op = "valeur_totale", !.date = date,
                                     !.res = "ok", !.val = valeur_totale(courant, date),
                                     !.etapes = <<"date", "lire_courant", "solde">>]
    /\ UNCHANGED <<aujourdhui, plateforme, autre, session, courant, courtage,
                   fichier, positifs, depots>>

\* Portefeuille.__init__ in a new process: empty ledgers, then lire_json
NouvelleSession ==
    LET lu == lire_json(fichier, <<>>, <<>>)
    IN  /\ avant' = Memoire
        /\ courant' = lu.courant
        /\ courtage' = lu.courtage
        /\ session' = IF lu.res = "ok" THEN "ouverte" ELSE "terminee"
        /\ dernier' = [Appel EXCEPT !.op = "__init__", !.res = lu.res]
        /\ UNCHANGED <<aujourdhui, plateforme, autre, fichier, positifs, depots>>

\* the wall clock passes midnight
Minuit ==
    /\ aujourdhui[3] < MaxJour
    /\ aujourdhui' = Jour(aujourdhui[3] + 1)
    /\ avant' = Memoire
    /\ dernier' = [Appel EXCEPT !.op = "minuit"]
    /\ UNCHANGED <<plateforme, autre, session, courant, courtage, fichier, positifs, depots>>

\* the scheduler runs the other process: each process holds its own
\* Portefeuille, built from the file when the process began; the calls of
\* the model are those of the process that runs
Bascule ==
    /\ autre' = [session |-> session, courant |-> courant, courtage |-> courtage]
    /\ session' = autre.session
    /\ courant' = autre.courant
    /\ courtage' = autre.courtage
    /\ avant' = [courant |-> autre.courant, courtage |-> autre.courtage,
                 fichier |-> fichier]
    /\ dernier' = [Appel EXCEPT !.op = "bascule"]
    /\ UNCHANGED <<aujourdhui, plateforme, fichier, positifs, depots>>

\* -------------------------------------------------------------- projection

\* A float is modelled by the exact fraction <<numerator, denominator>> in
\* lowest terms, denominator > 0: the roundings of the floats are left out.
Abs(n) == IF n < 0 THEN -n ELSE n

RECURSIVE PGCD(_, _)
PGCD(a, b) == IF b = 0 THEN a ELSE PGCD(b, a % b)

\* n / d
Frac(n, d) ==
    LET g == PGCD(Abs(n), Abs(d))
        s == IF d < 0 THEN -1 ELSE 1
    IN  <<(s * n) \div g, (s * d) \div g>>

Ent(n) == <<n, 1>>

FAdd(a, b) ==
    LET g == PGCD(a[2], b[2])
    IN  Frac(a[1] * (b[2] \div g) + b[1] * (a[2] \div g), (a[2] \div g) * b[2])

FMul(a, b) ==
    LET g == PGCD(Abs(a[1]), b[2])
        h == PGCD(Abs(b[1]), a[2])
    IN  Frac((a[1] \div g) * (b[1] \div h), (a[2] \div h) * (b[2] \div g))

\* a ** k for a whole k >= 0 (0 ** 0 is 1, as in Python)
RECURSIVE FPuiss(_, _)
FPuiss(a, k) == IF k = 0 THEN Ent(1) ELSE FMul(a, FPuiss(a, k - 1))

\* a ** (num / den), den > 0, where the result is a fraction: a = 1, or a
\* whole exponent (a negative one takes the inverse); undefined elsewhere
Puissance(a, num, den) ==
    CASE a = Ent(1) -> Ent(1)
      [] a # Ent(1) /\ num % den = 0 /\ num >= 0 -> FPuiss(a, num \div den)
      [] a # Ent(1) /\ num % den = 0 /\ num < 0 /\ a[1] # 0
           -> FPuiss(Frac(a[2], a[1]), (-num) \div den)

\* projection as it would be with the interest of the remaining days
\* computed on vo, not on the compounded value
projection_reste_sur_vo(vo, tau, annee, m) ==
    LET interests == FMul(Ent(vo), Puissance(FAdd(Ent(1), Frac(tau, 100)), annee, 1))
        capital == FMul(FMul(Frac(m, 365), Ent(vo)), Frac(tau, 100))
    IN  FAdd(interests, capital)

\* Portefeuille.projection(vo, tau, annee, m)
projection(vo, tau, annee, m) ==
    LET interests == FMul(Ent(vo), Puissance(FAdd(Ent(1), Frac(tau, 100)), annee, 1))
        capital == FMul(FMul(Frac(m, 365), interests), Frac(tau, 100))
    IN  FAdd(interests, capital)

\* Portefeuille.valeur_projetée_symbole(duration, prix, quantité, rendement),
\* jours being duration.days: diff_years is jours / 365, remain_days is
\* jours % 365 (never negative, in Python as here)
valeur_projetee_symbole(jours, prix, quantite, rendement) ==
    LET remain_days == jours % 365
    IN  FAdd(FMul(Ent(prix * quantite),
                  Puissance(FAdd(Ent(1), Frac(rendement, 100)), jours, 365)),
             FMul(Frac(remain_days, 365), Frac(prix * quantite * rendement, 100)))

\* the days of date - aujourdhui, both in January 2024
Duree(date, auj) == date[3] - auj[3]

\* the rate valeur_projetée applies to a symbol: rendement itself, or
\* rendement.get(symbole, 0)
taux_du_symbole(rendement, symbole) ==
    IF rendement.type = "float" THEN rendement.taux
    ELSE IF symbole \in DOMAIN rendement.table THEN rendement.table[symbole] ELSE 0

\* the loop of valeur_projetée over the symbols S of the mapping tit
RECURSIVE totale(_, _, _, _, _)
totale(S, tit, jours, rendement, cotes) ==
    IF S = {} THEN Ent(0)
    ELSE LET symbole == CHOOSE x \in S : TRUE
         IN  FAdd(totale(S \ {symbole}, tit, jours, rendement, cotes),
                  valeur_projetee_symbole(jours, cotes[symbole], tit[symbole],
                                          taux_du_symbole(rendement, symbole)))

\* what valeur_projetée does: ErreurDate for a date after today; else the
\* loop over self.titres(date), cotes[symbole] being what
\* self.bourse.prix(symbole, date) returns; an int has no method get
valeur_projetee(t, date, auj, rendement, cotes) ==
    LET tit == titres(t, date)
    IN  IF DateGT(date, auj) THEN [res |-> "ErreurDate", val |-> Ent(0)]
        ELSE IF tit.res # "ok" THEN [res |-> tit.res, val |-> Ent(0)]
        ELSE IF rendement.type = "int" /\ DOMAIN tit.val # {}
        THEN [res |-> "AttributeError", val |-> Ent(0)]
        ELSE [res |-> "ok",
              val |-> totale(DOMAIN tit.val, tit.val, Duree(date, auj), rendement, cotes)]

\* Portefeuille.valeur_projetée(date, rendement)
ValeurProjetee(date, rendement, cotes) ==
    LET r == valeur_projetee(courtage, date, aujourdhui, rendement, cotes)
    IN  /\ session = "ouverte"
        /\ avant' = Memoire
        /\ dernier' = [Appel EXCEPT !.op = "valeur_projetee", !.date = date,
                                    !.args = <<rendement, cotes>>,
                                    !.res = r.res, !.val = r.val]
        /\ UNCHANGED <<aujourdhui, plateforme, autre, session, courant, courtage,
                       fichier, positifs, depots>>

\* a call of projection
Projection(vo, tau, annee, m) ==
    /\ session = "ouverte"
    /\ avant' = Memoire
    /\ dernier' = [Appel EXCEPT !.op = "projection", !.args = <<vo, tau, annee, m>>,
                                !.res = "ok", !.val = projection(vo, tau, annee, m)]
    /\ UNCHANGED <<aujourdhui, plateforme, autre, session, courant, courtage,
                   fichier, positifs, depots>>

\* a call of valeur_projetée_symbole
ValeurProjeteeSymbole(jours, prix, quantite, rendement) ==
    /\ session = "ouverte"
    /\ avant' = Memoire
    /\ dernier' = [Appel EXCEPT !.op = "valeur_projetee_symbole",
                                !.args = <<jours, prix, quantite, rendement>>,
                                !.res = "ok",
                                !.val = valeur_projetee_symbole(jours, prix, quantite,
                                                                rendement)]
    /\ UNCHANGED <<aujourdhui, plateforme, autre, session, courant, courtage,
                   fichier, positifs, depots>>

\* the ledgers a run may grow to, and the deposits it may make
Borne(n) == Len(courant') <= n /\ Len(depots') <= n

Next ==
    \/ \E m \in Montants, d \in Dates : Deposer(m, d) /\ Borne(MaxEcritures)
    \/ \E s \in Symboles, q \in Quantites, d \in Jours, p \in Cotes :
           Acheter(s, q, d, p) /\ Borne(MaxEcritures)
    \/ \E s \in Symboles, q \in Quantites, d \in Jours, p \in Cotes :
           Vendre(s, q, d, p) /\ Borne(MaxEcritures)
    \/ \E d \in Jours : Solde(d)
    \/ \E d \in Jours : Titres(d)
    \/ \E S \in {{"A"}, Symboles}, d \in Jours : ValeurDesTitres(S, d)
    \/ \E d \in Jours : ValeurTotale(d)
    \/ NouvelleSession
    \/ Minuit

Spec == Init /\ [][Next]_vars

\* longer ledgers over fewer inputs: deposits and trades of one share of "A"
NextLong ==
    \/ \E m \in Montants, d \in Jours : Deposer(m, d) /\ Borne(MaxLong)
    \/ \E d \in Jours, p \in Cotes : Acheter("A", 1, d, p) /\ Borne(MaxLong)
    \/ \E d \in Jours, p \in Cotes : Vendre("A", 1, d, p) /\ Borne(MaxLong)
    \/ NouvelleSession
    \/ Minuit

SpecLong == Init /\ [][NextLong]_vars

\* two processes on the same file: deposits and trades of one share of "A"
\* at one price
NextDeux ==
    \/ \E m \in Montants, d \in Jours : Deposer(m, d) /\ Borne(MaxDeux)
    \/ \E d \in Jours, p \in CotesZero : Acheter("A", 1, d, p) /\ Borne(MaxDeux)
    \/ \E d \in Jours, p \in CotesZero : Vendre("A", 1, d, p) /\ Borne(MaxDeux)
    \/ NouvelleSession
    \/ Bascule
    \/ Minuit

SpecDeux == Init /\ [][NextDeux]_vars

\* two processes on the same file, trades of no share among the trades
NextZero ==
    \/ \E m \in Montants : Deposer(m, aujourdhui) /\ Borne(MaxZero)
    \/ \E q \in QuantitesZero, d \in Jours, p \in CotesZero :
           Acheter("A", q, d, p) /\ Borne(MaxZero)
    \/ \E q \in QuantitesZero, p \in CotesZero :
           Vendre("A", q, aujourdhui, p) /\ Borne(MaxZero)
    \/ \E d \in Jours : Titres(d)
    \/ NouvelleSession
    \/ Bascule

SpecZero == Init /\ [][NextZero]_vars

\* the two projection formulas over their arguments; the durations with a
\* rate other than 0 are those of whole years, whose power is a fraction
NextProjection ==
    \/ \E vo \in Valeurs, tau \in Taux, annee \in 0..MaxAnnee, m \in Restes :
           Projection(vo, tau, annee, m)
    \/ \E j \in Durees, p \in Cotes, q \in Quantites, r \in Rendements :
           /\ (r = 0 \/ j % 365 = 0)
           /\ ValeurProjeteeSymbole(j, p, q, r)

SpecProjection == Init /\ [][NextProjection]_vars

\* every rate of the argument rendement is 0
TauxNul(rendement) ==
    /\ rendement.taux = 0
    /\ \A s \in DOMAIN rendement.table : rendement.table[s] = 0

\* deposits, buys of one share, and valeur_projetée; the dates before today
\* come with rates of 0, whose power is a fraction
NextProjetee ==
    \/ \E m \in Montants : Deposer(m, aujourdhui) /\ Borne(MaxProjetee)
    \/ \E s \in Symboles, p \in Cotes : Acheter(s, 1, aujourdhui, p) /\ Borne(MaxProjetee)
    \/ \E d \in Jours, r \in RendementsPortefeuille, c \in [Symboles -> Cotes] :
           /\ (DateGT(d, aujourdhui) \/ d = aujourdhui \/ TauxNul(r))
           /\ ValeurProjetee(d, r, c)
    \/ Minuit

SpecProjetee == Init /\ [][NextProjetee]_vars

\* ------------------------------------------------------------------ claims

Mutations == {"deposer", "acheter", "vendre"}

\* a is the beginning of b
Prefixe(a, b) == Len(a) <= Len(b) /\ SubSeq(b, 1, Len(a)) = a

\* C1: a call of déposer, acheter, vendre, solde, titres or valeur_des_titres
\* whose date is strictly after today ends with ErreurDate.
C1_DateFuture ==
    (/\ dernier.op \in Mutations \cup {"solde", "titres", "valeur_des_titres"}
     /\ ~DateLE(dernier.date, aujourdhui))
    => dernier.res = "ErreurDate"

\* a sale dated tomorrow was refused although the shares are held
C1_Temoin ==
    /\ dernier.op = "vendre"
    /\ dernier.res = "ErreurDate"
    /\ nombre_actions(courtage, dernier.symbole, aujourdhui) >= dernier.quantite

\* C2: a buy dated today or before is refused with LiquiditéInsuffisante
\* exactly when the balance at its date, before the debit, is strictly below
\* price x quantity; with a balance equal to or above the cost it is accepted;
\* on an empty portfolio a buy of positive cost is refused.
C2_Liquidite ==
    (/\ dernier.op = "acheter"
     /\ DateLE(dernier.date, aujourdhui))
    => LET cout == dernier.prix * dernier.quantite
           disponible == solde(avant.courant, dernier.date)
       IN  /\ dernier.res \in {"ok", "LiquiditeInsuffisante"}
           /\ dernier.res = "LiquiditeInsuffisante" <=> disponible < cout
           /\ dernier.res = "ok" <=> disponible >= cout
           /\ (avant.courant = <<>> /\ cout > 0) => dernier.res = "LiquiditeInsuffisante"

\* a buy whose cost equals the balance was accepted
C2_Temoin ==
    /\ dernier.op = "acheter"
    /\ dernier.res = "ok"
    /\ solde(avant.courant, dernier.date) = dernier.prix * dernier.quantite
    /\ dernier.prix * dernier.quantite > 0

\* C3: a sale dated today or before is refused with ErreurQuantité exactly
\* when the net quantity of the symbol over the trades dated <= its date is
\* strictly below the quantity asked; otherwise it is accepted.
C3_Quantite ==
    (/\ dernier.op = "vendre"
     /\ DateLE(dernier.date, aujourdhui))
    => LET detenu == nombre_actions(avant.courtage, dernier.symbole, dernier.date)
       IN  /\ dernier.res \in {"ok", "ErreurQuantite"}
           /\ dernier.res = "ErreurQuantite" <=> detenu < dernier.quantite
           /\ dernier.res = "ok" <=> detenu >= dernier.quantite

\* a sale of more shares than the (positive) number held was refused
C3_Temoin ==
    /\ dernier.op = "vendre"
    /\ dernier.res = "ErreurQuantite"
    /\ nombre_actions(avant.courtage, dernier.symbole, dernier.date) > 0

\* C4: a déposer, acheter or vendre that ends with ErreurDate,
\* LiquiditéInsuffisante or ErreurQuantité leaves courant, courtage and the
\* file as they were; a buy or a sale appends to both ledgers or to neither.
C4_PasEcriturePartielle ==
    /\ (/\ dernier.op \in Mutations
        /\ dernier.res \in {"ErreurDate", "LiquiditeInsuffisante", "ErreurQuantite"})
       => /\ courant = avant.courant
          /\ courtage = avant.courtage
          /\ fichier = avant.fichier
    /\ dernier.op \in {"acheter", "vendre"}
       => \/ courant = avant.courant /\ courtage = avant.courtage
          \/ /\ Len(courant) = Len(avant.courant) + 1
             /\ Len(courtage) = Len(avant.courtage) + 1

\* a buy was refused for lack of cash on a portfolio that holds entries and a file
C4_Temoin ==
    /\ dernier.op = "acheter"
    /\ dernier.res = "LiquiditeInsuffisante"
    /\ courant # <<>>
    /\ fichier.existe

\* the dates of today or before among the date arguments
DatesPassees == {d \in Dates : DateLE(d, aujourdhui)}

\* C5: after accepted calls with positive quantities only, at any dates of
\* today or before, the net quantity of every symbol is >= 0 at every date
\* of today or before.
C5_TitresNonNegatifs ==
    positifs => \A s \in Symboles, d \in DatesPassees :
                    nombre_actions(courtage, s, d) >= 0

\* C6: after accepted deposits of non-negative amounts and accepted trades of
\* positive quantities at non-negative prices, at any dates of today or
\* before, the balance is >= 0 at every date of today or before.
C6_SoldeNonNegatif ==
    positifs => \A d \in DatesPassees : solde(courant, d) >= 0

\* C7: within a session every call leaves each ledger as it was, or as it
\* was with entries appended: the ledger before is a prefix of the ledger
\* after.
C7_AjoutSeul ==
    dernier.op # "__init__"
    => /\ Prefixe(avant.courant, courant)
       /\ Prefixe(avant.courtage, courtage)

\* a buy was appended behind a cash entry of a later date
C7_Temoin ==
    /\ dernier.op = "acheter"
    /\ dernier.res = "ok"
    /\ Len(courant) = 3
    /\ ~DateLE(courant[2][1], courant[3][1])

\* C8: the mapping titres(date) returns holds no symbol with the value 0: a
\* symbol whose net quantity at that date is zero is absent from it.
C8_PasDeZero ==
    (dernier.op = "titres" /\ dernier.res = "ok")
    => /\ \A s \in DOMAIN dernier.val : dernier.val[s] # 0
       /\ \A s \in Symboles :
             nombre_actions(courtage, s, dernier.date) = 0 => s \notin DOMAIN dernier.val

\* titres returned a mapping without a symbol that was bought and sold back
C8_Temoin ==
    /\ dernier.op = "titres"
    /\ dernier.res = "ok"
    /\ \E i \in 1..Len(courtage) :
          /\ DateLE(courtage[i][1], dernier.date)
          /\ courtage[i][2] \notin DOMAIN dernier.val

\* C9: écrire_json then lire_json into a fresh Portefeuille of the same name
\* gives ledgers equal, entry by entry and in order, to those written.
C9_AllerRetour ==
    dernier.op = "__init__"
    => /\ dernier.res = "ok"
       /\ courant = avant.courant
       /\ courtage = avant.courtage

\* what écrire_json is to write for the ledgers c and t, entry by entry
EstImage(f, c, t) ==
    /\ f.existe
    /\ Len(f.courant) = Len(c)
    /\ Len(f.courtage) = Len(t)
    /\ \A i \in 1..Len(c) :
          f.courant[i] = <<strftime(c[i][1], plateforme), json_nombre(c[i][2])>>
    /\ \A i \in 1..Len(t) :
          f.courtage[i] = <<strftime(t[i][1], plateforme), t[i][2],
                           json_nombre(t[i][3]), json_nombre(t[i][4])>>

\* C10: with one Portefeuille on the file, once an accepted déposer, acheter
\* or vendre has returned the file holds the whole of both ledgers as they
\* are in memory; in no state does the memory hold an entry the file lacks.
C10_FichierAJour ==
    /\ (dernier.op \in Mutations /\ dernier.res = "ok")
       => EstImage(fichier, courant, courtage)
    /\ (session = "ouverte" /\ (courant # <<>> \/ courtage # <<>>))
       => EstImage(fichier, courant, courtage)

\* a sale was accepted and written behind earlier entries of both ledgers
C10_Temoin ==
    /\ dernier.op = "vendre"
    /\ dernier.res = "ok"
    /\ Len(fichier.courant) = 3
    /\ Len(fichier.courtage) = 2

\* C11: a new Portefeuille starts with the ledgers the file holds, or with
\* two empty ledgers and no error when there is no file; every entry the
\* session before had in memory is in the ledgers of the new session.
C11_Reprise ==
    dernier.op = "__init__"
    => /\ dernier.res = "ok"
       /\ ~fichier.existe => (courant = <<>> /\ courtage = <<>>)
       /\ fichier.existe => EstImage(fichier, courant, courtage)
       /\ Prefixe(avant.courant, courant)
       /\ Prefixe(avant.courtage, courtage)

\* C12: for a date d of today or before such that no cash entry dated <= d
\* is negative, solde does not decrease over the dates up to d:
\* d1 <= d2 <= d gives solde(d1) <= solde(d2).
C12_SoldeMonotone ==
    \A d \in DatesPassees :
        (\A i \in 1..Len(courant) : DateLE(courant[i][1], d) => courant[i][2] >= 0)
        => \A d1, d2 \in DatesPassees :
               (DateLE(d1, d2) /\ DateLE(d2, d))
               => solde(courant, d1) <= solde(courant, d2)

\* solde was asked at a date up to which no entry is negative, in a ledger
\* that holds a later debit, and returned more than the balance of a date before
C12_Temoin ==
    /\ dernier.op = "solde"
    /\ dernier.res = "ok"
    /\ \A i \in 1..Len(courant) :
          DateLE(courant[i][1], dernier.date) => courant[i][2] >= 0
    /\ \E i \in 1..Len(courant) : courant[i][2] < 0
    /\ \E d1 \in DatesPassees :
          /\ DateLE(d1, dernier.date)
          /\ solde(courant, d1) < dernier.val

\* C13: in every state reached from empty ledgers, with a clock that only
\* moves forward, every entry of courant and of courtage carries a date of
\* today or before.
C13_PasDeDateFuture ==
    /\ \A i \in 1..Len(courant) : DateLE(courant[i][1], aujourdhui)
    /\ \A i \in 1..Len(courtage) : DateLE(courtage[i][1], aujourdhui)

\* after midnight a trade dated today was appended behind an entry of the day before
C13_Temoin ==
    /\ aujourdhui # Jour(1)
    /\ dernier.op \in {"acheter", "vendre"}
    /\ dernier.res = "ok"
    /\ dernier.date = aujourdhui
    /\ \E i \in 1..Len(courant) : courant[i][1] # aujourdhui

\* C14: with two Portefeuille on one file, an accepted déposer, acheter or
\* vendre is decided on the caller's own ledgers and leaves the file holding
\* the caller's whole ledgers, its own ledgers of before plus the entries of
\* this call, whatever the file held; a deposit dated today or before is
\* never refused.  When the file held the ledgers of the other instance,
\* one entry longer than the caller's, the file is no longer afterwards:
\* the other instance's entry is gone from it.
C14_DernierEcrivain ==
    /\ (dernier.op = "deposer" /\ DateLE(dernier.date, aujourdhui))
       => dernier.res = "ok"
    /\ (dernier.op \in Mutations /\ dernier.res = "ok")
       => /\ EstImage(fichier, courant, courtage)
          /\ Len(fichier.courant) = Len(avant.courant) + 1
          /\ Len(fichier.courtage)
               = Len(avant.courtage) + (IF dernier.op = "deposer" THEN 0 ELSE 1)
          /\ (/\ autre.session = "ouverte"
              /\ EstImage(avant.fichier, autre.courant, autre.courtage)
              /\ Len(autre.courant) = Len(avant.courant) + 1)
             => Len(fichier.courant) = Len(avant.fichier.courant)

\* both instances held the same non-empty ledger, the other one appended an
\* entry and wrote the file, then this one appended a different entry: the
\* file holds this instance's ledger, without the entry of the other
C14_Temoin ==
    /\ dernier.op \in Mutations
    /\ dernier.res = "ok"
    /\ autre.session = "ouverte"
    /\ avant.courant # <<>>
    /\ Prefixe(avant.courant, autre.courant)
    /\ Len(autre.courant) = Len(avant.courant) + 1
    /\ EstImage(avant.fichier, autre.courant, autre.courtage)
    /\ autre.courant[Len(autre.courant)] # courant[Len(courant)]
    /\ EstImage(fichier, courant, courtage)

\* C15: an accepted acheter appends exactly <<date, -(prix * quantité)>> to
\* courant and <<date, symbole, +quantité, prix>> to courtage; an accepted
\* vendre appends <<date, symbole, -quantité, prix>> to courtage and
\* <<date, +(prix * quantité)>> to courant, prix being what the oracle gave
\* during the call; an accepted déposer appends <<date, montant>> to courant
\* and nothing to courtage.  The unit price of a trade entry stays what it
\* was stored, within a session and across a reload.
C15_EffetTransaction ==
    /\ (dernier.op = "acheter" /\ dernier.res = "ok")
       => /\ courant = Append(avant.courant,
                              <<dernier.date, -(dernier.prix * dernier.quantite)>>)
          /\ courtage = Append(avant.courtage,
                               <<dernier.date, dernier.symbole,
                                 dernier.quantite, dernier.prix>>)
    /\ (dernier.op = "vendre" /\ dernier.res = "ok")
       => /\ courtage = Append(avant.courtage,
                               <<dernier.date, dernier.symbole,
                                 -dernier.quantite, dernier.prix>>)
          /\ courant = Append(avant.courant,
                              <<dernier.date, dernier.prix * dernier.quantite>>)
    /\ (dernier.op = "deposer" /\ dernier.res = "ok")
       => /\ courant = Append(avant.courant, <<dernier.date, dernier.montant>>)
          /\ courtage = avant.courtage
    /\ \A i \in 1..Len(avant.courtage) :
          i <= Len(courtage) => courtage[i][4] = avant.courtage[i][4]

\* shares bought at one price were sold at another: the sale is stored at
\* the price of the sale, the buy keeps the price of the buy
C15_Temoin ==
    /\ dernier.op = "vendre"
    /\ dernier.res = "ok"
    /\ \E i \in 1..Len(avant.courtage) :
          /\ courtage[i][2] = dernier.symbole
          /\ courtage[i][3] > 0
          /\ courtage[i][4] # dernier.prix
    /\ courtage[Len(courtage)][4] = dernier.prix

\* C16: whatever trades were accepted, of no share included, titres at a
\* date of today or before returns, and what it returns maps exactly the
\* symbols whose net quantity at that date is not zero to that quantity.
C16_TitresExact ==
    (dernier.op = "titres" /\ DateLE(dernier.date, aujourdhui))
    => /\ dernier.res = "ok"
       /\ dernier.val
            = [s \in {x \in Symboles : nombre_actions(courtage, x, dernier.date) # 0}
                 |-> nombre_actions(courtage, s, dernier.date)]

\* b holds the entries of a, each as many times, in some order
MemesEcritures(a, b) ==
    /\ Len(a) = Len(b)
    /\ \E p \in Permutations(1..Len(a)) : \A i \in 1..Len(a) : b[i] = a[p[i]]

\* C17: two Portefeuille whose cash ledgers hold the same entries and whose
\* trade ledgers hold the same entries, in whatever orders, get the same
\* outcome from solde, nombre_actions, titres and valeur_des_titres at
\* every date of today or before: the same value, or an error for both.
C17_OrdreIndifferent ==
    (/\ session = "ouverte"
     /\ autre.session = "ouverte"
     /\ MemesEcritures(courant, autre.courant)
     /\ MemesEcritures(courtage, autre.courtage))
    => \A d \in DatesPassees :
          /\ solde(courant, d) = solde(autre.courant, d)
          /\ \A s \in Symboles :
                nombre_actions(courtage, s, d) = nombre_actions(autre.courtage, s, d)
          /\ \A S \in SUBSET Symboles :
                valeur_des_titres(courtage, S, d) = valeur_des_titres(autre.courtage, S, d)
          /\ titres(courtage, d).res = titres(autre.courtage, d).res
          /\ titres(courtage, d).res = "ok"
             => titres(courtage, d).val = titres(autre.courtage, d).val

\* the sum of f[i] over the indices i of I
RECURSIVE Somme(_, _)
Somme(f, I) ==
    IF I = {} THEN 0
    ELSE LET i == CHOOSE x \in I : TRUE IN f[i] + Somme(f, I \ {i})

\* C18: valeur_des_titres at a date of today or before returns the sum of
\* signed quantity x stored unit price over the trade entries dated <= date
\* whose symbol is among the symbols asked; it does not ask the oracle, so
\* the prices the oracle gives later do not change it.
C18_ValeurAuPrixStocke ==
    (dernier.op = "valeur_des_titres" /\ DateLE(dernier.date, aujourdhui))
    => /\ dernier.res = "ok"
       /\ dernier.val
            = Somme([i \in 1..Len(courtage) |-> courtage[i][3] * courtage[i][4]],
                    {i \in 1..Len(courtage) :
                        /\ DateLE(courtage[i][1], dernier.date)
                        /\ courtage[i][2] \in dernier.symboles})
       /\ \A k \in 1..Len(dernier.etapes) : dernier.etapes[k] # "prix"

\* the value was asked of a ledger that holds, among the trades counted,
\* two trades at two different prices
C18_Temoin ==
    /\ dernier.op = "valeur_des_titres"
    /\ dernier.res = "ok"
    /\ dernier.val # 0
    /\ \E i, j \in 1..Len(courtage) :
          /\ courtage[i][2] \in dernier.symboles
          /\ courtage[j][2] \in dernier.symboles
          /\ courtage[i][4] # courtage[j][4]
          /\ DateLE(courtage[i][1], dernier.date)
          /\ DateLE(courtage[j][1], dernier.date)

\* C19: valeur_totale at a date of today or before returns solde(date) plus
\* the sum of the amounts of the cash entries dated <= date; at a later date
\* it raises ErreurDate; it reads neither courtage nor the oracle.
C19_ValeurTotale ==
    dernier.op = "valeur_totale"
    => /\ DateGT(dernier.date, aujourdhui) <=> dernier.res = "ErreurDate"
       /\ DateLE(dernier.date, aujourdhui)
          => /\ dernier.res = "ok"
             /\ dernier.val
                  = solde(courant, dernier.date)
                    + Somme([i \in 1..Len(courant) |-> courant[i][2]],
                            {i \in 1..Len(courant) : DateLE(courant[i][1], dernier.date)})
       /\ \A k \in 1..Len(dernier.etapes) :
             dernier.etapes[k] \notin {"prix", "lire_courtage"}

\* valeur_totale was asked of a portfolio that holds shares and a balance
\* above zero, with a cash entry dated after the date asked
C19_Temoin ==
    /\ dernier.op = "valeur_totale"
    /\ dernier.res = "ok"
    /\ solde(courant, dernier.date) > 0
    /\ dernier.val = 2 * solde(courant, dernier.date)
    /\ courtage # <<>>
    /\ \E i \in 1..Len(courant) : ~DateLE(courant[i][1], dernier.date)

\* how many times the call asked the oracle
NbPrix(e) == Cardinality({k \in 1..Len(e) : e[k] = "prix"})

\* step a comes before step b in e
Precede(e, a, b) == \E i, j \in 1..Len(e) : i < j /\ e[i] = a /\ e[j] = b

\* C20: acheter tests the date, then asks the oracle once, then tests the
\* liquidity; vendre tests the date, then the quantity, and asks the oracle
\* once after both tests passed.  A call refused with ErreurDate, and a sale
\* refused with ErreurQuantité, never asked the oracle; an accepted buy or
\* sale asked it before its first append.
C20_OrdreDesControles ==
    dernier.op \in {"acheter", "vendre"}
    => /\ dernier.etapes[1] = "date"
       /\ dernier.res \in {"ErreurDate", "ErreurQuantite"} => NbPrix(dernier.etapes) = 0
       /\ (dernier.op = "acheter" /\ dernier.res # "ErreurDate")
          => /\ NbPrix(dernier.etapes) = 1
             /\ Precede(dernier.etapes, "date", "prix")
             /\ Precede(dernier.etapes, "prix", "solde")
       /\ (dernier.op = "vendre" /\ dernier.res = "ok")
          => /\ NbPrix(dernier.etapes) = 1
             /\ Precede(dernier.etapes, "date", "nombre_actions")
             /\ Precede(dernier.etapes, "nombre_actions", "prix")
       /\ dernier.res = "ok"
          => \A j \in 1..Len(dernier.etapes) :
                dernier.etapes[j] \in {"append_courant", "append_courtage"}
                => \E i \in 1..(j - 1) : dernier.etapes[i] = "prix"

\* a sale of shares the portfolio does not hold, from a ledger with trades,
\* was refused without a call of the oracle
C20_Temoin ==
    /\ dernier.op = "vendre"
    /\ dernier.res = "ErreurQuantite"
    /\ NbPrix(dernier.etapes) = 0
    /\ avant.courtage # <<>>

\* C21: projection(vo, tau, annee, m) is vo x (1 + tau/100)^annee increased
\* by the fraction m/365 of tau percent of that compounded value; so
\* projection(1000, 5, 1, 0) is 1050 and projection(v, 0, annee, m) is v;
\* valeur_projetée_symbole at the rate 0 is prix x quantité.
C21_Projection ==
    /\ dernier.op = "projection"
       => LET vo == dernier.args[1]
              tau == dernier.args[2]
              annee == dernier.args[3]
              m == dernier.args[4]
              compose == FMul(Ent(vo), FPuiss(Frac(100 + tau, 100), annee))
          IN  /\ dernier.val = FMul(compose, Frac(365 * 100 + m * tau, 365 * 100))
              /\ dernier.args = <<1000, 5, 1, 0>> => dernier.val = Ent(1050)
              /\ tau = 0 => dernier.val = Ent(vo)
    /\ (dernier.op = "valeur_projetee_symbole" /\ dernier.args[4] = 0)
       => dernier.val = Ent(dernier.args[2] * dernier.args[3])

\* a projection over two years and a remainder of days at a rate other than 0
C21_Temoin ==
    /\ dernier.op = "projection"
    /\ dernier.args = <<1000, 5, 2, 73>>
    /\ dernier.val = <<44541, 40>>

\* the sum of the fractions f[i] over the indices i of I
RECURSIVE SommeFrac(_, _)
SommeFrac(f, I) ==
    IF I = {} THEN Ent(0)
    ELSE LET i == CHOOSE x \in I : TRUE IN FAdd(f[i], SommeFrac(f, I \ {i}))

\* C22: valeur_projetée(date, rendement) returns, for a date after today
\* too, the sum over the symbols held at that date of the projected value of
\* each, at the scalar rate or at the rate the mapping gives the symbol, 0
\* for a symbol the mapping lacks; it does not end with ErreurDate.
C22_ValeurProjetee ==
    dernier.op = "valeur_projetee"
    => /\ dernier.res = "ok"
       /\ LET rendement == dernier.args[1]
              cotes == dernier.args[2]
              jours == Duree(dernier.date, aujourdhui)
              tenus == {s \in Symboles : nombre_actions(courtage, s, dernier.date) # 0}
              taux == [s \in Symboles |->
                         IF rendement.type = "dict"
                         THEN IF s \in DOMAIN rendement.table
                              THEN rendement.table[s] ELSE 0
                         ELSE rendement.taux]
          IN  dernier.val
                = SommeFrac([s \in tenus |->
                               valeur_projetee_symbole(
                                   jours, cotes[s],
                                   nombre_actions(courtage, s, dernier.date), taux[s])],
                            tenus)

\* C23: with one Portefeuille, after any accepted déposer, acheter and
\* vendre, at every date d of today or before, solde(d) plus
\* valeur_des_titres of all the symbols at d is the sum of the amounts of
\* the deposits dated <= d.
C23_Conservation ==
    session = "ouverte"
    => \A d \in DatesPassees :
          solde(courant, d) + valeur_des_titres(courtage, Symboles, d)
            = Somme([i \in 1..Len(depots) |-> depots[i][2]],
                    {i \in 1..Len(depots) : DateLE(depots[i][1], d)})

\* shares were sold above the price they were bought at: the trade entries
\* sum to less than zero and the balance exceeds the deposits by as much
C23_Temoin ==
    /\ dernier.op = "vendre"
    /\ dernier.res = "ok"
    /\ depots # <<>>
    /\ valeur_des_titres(courtage, Symboles, aujourdhui) < 0

====
